---- MODULE Spec2Model ----
(***************************************************************************)
(* A model of brainphoque (src/src/main.rs): the parser of main, the       *)
(* tree-walking Interpreter, JitCompiler::compile (code generation and     *)
(* the executable-page protocol) and the execution of the generated        *)
(* AArch64 code on the tape main hands to it.                              *)
(*                                                                         *)
(* main runs parse -> compile -> invoke; the Interpreter is the reference  *)
(* execution (main.rs:80-81).  The model runs both on the same parsed      *)
(* program, the interpreter first, so that their outputs can be compared.  *)
(***************************************************************************)
EXTENDS Integers, Sequences, FiniteSets, TLC

VARIABLES
    program,          \* the source text, a sequence of characters
    reader,           \* the bytes the interpreter's reader still holds
    overflow_checks,  \* build profile: TRUE = integer overflow panics (debug)
    tape_fill,        \* the byte the compiled path's tape buffer is filled with
    pc,               \* where control is
    i,                \* main: index of the character being parsed
    operations,       \* main: Vec<Op>
    jump_op_stack,    \* main: Vec<usize>
    cells,            \* Interpreter.cells
    ip,               \* Interpreter::run: instruction pointer
    dp,               \* Interpreter::run: data pointer
    writer,           \* bytes the interpreter wrote to its writer
    istatus,          \* how the interpreter run stands / ended
    jit_memory,       \* main: the buffer handed to the compiled function
    code,             \* compile: Vec<u8>
    wp,               \* the thread's JIT write-protection switch
    mem,              \* compile: what mmap returned
    os_error,         \* errno as mmap left it (0: none)
    diag,             \* what compile printed about a failed mapping
    page,             \* the bytes of the mapped page
    events,           \* history: the executable-memory steps taken, in order
    regs,             \* the registers the generated code uses
    npc,              \* byte offset in the page of the next native instruction
    stdout,           \* bytes the generated code wrote to file descriptor 1
    funcs,            \* the pages of the functions compile returned so far,
                      \* when compile is called more than once
    outs              \* what the calls of those functions wrote and left

vars == <<program, reader, overflow_checks, tape_fill, pc, i, operations,
          jump_op_stack, cells, ip, dp, writer, istatus, jit_memory, code, wp,
          mem, os_error, diag, page, events, regs, npc, stdout, funcs, outs>>

parserVars == <<i, operations, jump_op_stack>>
interpVars == <<cells, ip, dp, writer, istatus, reader>>
jitVars    == <<jit_memory, code, wp, mem, os_error, diag, page, events, regs,
               npc, stdout>>
inputVars  == <<program, overflow_checks, tape_fill>>
callVars   == <<funcs, outs>>

---------------------------------------------------------------------------
(* Bounds of the model *)

\* longest source text explored
MaxLen == 3

\* most bytes a run may write before the model stops following it
MaxOut == 3

\* the eight instruction characters and one character that is none of them
InstrChars == {"+", "-", "<", ">", ".", ",", "[", "]"}
Alphabet == InstrChars \cup {"a"}

Texts == UNION {[1..n -> Alphabet] : n \in 0..MaxLen}

\* the number of '[' of text t still open after its first n characters,
\* -1 once a ']' came with none open
RECURSIVE Depth(_, _)
Depth(t, n) ==
    IF n = 0 THEN 0
    ELSE LET d == Depth(t, n - 1) IN
         IF d < 0 THEN -1
         ELSE IF t[n] = "[" THEN d + 1
         ELSE IF t[n] = "]" THEN d - 1
         ELSE d

Balanced(t) == Depth(t, Len(t)) = 0

\* The texts that are executed: those that leave no '[' open.  (A text with
\* an open '[' keeps its JumpIfZero(0) placeholder, which sends the
\* interpreter back to index 0; SpecParse explores the parsing of those.)
Programs == {t \in Texts : Depth(t, Len(t)) <= 0}

\* error numbers a refused mmap may leave (ENOMEM, EINVAL)
Errnos == {12, 22}

\* input streams offered to the interpreter's reader
Inputs == {<<>>, <<7>>, <<255, 1>>}

---------------------------------------------------------------------------
(* Program constants *)

\* u8: cells hold 0..255
ByteMod == 256
\* Interpreter.cells: [u8; 1000]
NumCells == 1000
\* main: jit_memory = [65; 1024]
JitMemLen == 1024
JitMemFill == 65

---------------------------------------------------------------------------
(* Byte arrays [v; n]: an array of n bytes, all v at first.  The array is  *)
(* kept as its size, its fill and the cells that differ from the fill.     *)

ArrayOf(v, n) == [size |-> n, fill |-> v, diff |-> <<>>]

ArrayGet(a, k) == IF k \in DOMAIN a.diff THEN a.diff[k] ELSE a.fill

ArraySet(a, k, v) ==
    [a EXCEPT !.diff =
        IF v = a.fill
        THEN [j \in (DOMAIN a.diff) \ {k} |-> a.diff[j]]
        ELSE [j \in (DOMAIN a.diff) \cup {k} |-> IF j = k THEN v ELSE a.diff[j]]]

\* every cell of the array
ArrayCells(a) == {ArrayGet(a, k) : k \in DOMAIN a.diff} \cup
                 (IF Cardinality(DOMAIN a.diff) < a.size THEN {a.fill} ELSE {})

---------------------------------------------------------------------------
(* enum Op *)

Inc == <<"Inc">>
Dec == <<"Dec">>
Left == <<"Left">>
Right == <<"Right">>
Output == <<"Output">>
Input == <<"Input">>
JumpIfZero(addr) == <<"JumpIfZero", addr>>
JumpIfNonZero(addr) == <<"JumpIfNonZero", addr>>

IsJumpIfZero(op) == op[1] = "JumpIfZero"
IsJumpIfNonZero(op) == op[1] = "JumpIfNonZero"

---------------------------------------------------------------------------
(* The parser: the loop of main, one character per step.                   *)
(* A parser state is [operations, jump_op_stack, result]; result is        *)
(* "ok" while the loop goes on, "Err" after return Err("Unbalanced         *)
(* jumps"), "panic" after unreachable!() or an index out of bounds.        *)

\* (a variant of BackPatch: every JumpIfZero still holding the placeholder
\* is patched)
BackPatchAll(ops, addr, idx) ==
    [operations |-> [k \in 1..Len(ops) |->
                        IF ops[k] = JumpIfZero(0) THEN JumpIfZero(idx + 1) ELSE ops[k]],
     result |-> "ok"]

\* operations[addr] = JumpIfZero(ref mut a) => *a = i + 1, with the panics
\* of the indexing and of the unreachable!() arm.  addr and idx are 0-based.
BackPatch(ops, addr, idx) ==
    IF addr >= Len(ops)
    THEN [operations |-> ops, result |-> "panic"]
    ELSE IF IsJumpIfZero(ops[addr + 1])
    THEN [operations |-> [ops EXCEPT ![addr + 1] = JumpIfZero(idx + 1)],
          result |-> "ok"]
    ELSE [operations |-> ops, result |-> "panic"]

\* The body of the for loop for character c at character index idx.
ParseCharFn(ops, stack, idx, c) ==
    CASE c = "+" -> [operations |-> Append(ops, Inc), jump_op_stack |-> stack, result |-> "ok"]
      [] c = "-" -> [operations |-> Append(ops, Dec), jump_op_stack |-> stack, result |-> "ok"]
      [] c = "<" -> [operations |-> Append(ops, Left), jump_op_stack |-> stack, result |-> "ok"]
      [] c = ">" -> [operations |-> Append(ops, Right), jump_op_stack |-> stack, result |-> "ok"]
      [] c = "." -> [operations |-> Append(ops, Output), jump_op_stack |-> stack, result |-> "ok"]
      [] c = "," -> [operations |-> Append(ops, Input), jump_op_stack |-> stack, result |-> "ok"]
      [] c = "[" -> [operations |-> Append(ops, JumpIfZero(0)),
                     jump_op_stack |-> Append(stack, idx), result |-> "ok"]
      [] c = "]" ->
            IF stack = <<>>
            THEN [operations |-> ops, jump_op_stack |-> stack, result |-> "Err"]
            ELSE LET addr == stack[Len(stack)]
                     popped == SubSeq(stack, 1, Len(stack) - 1)
                     pushed == Append(ops, JumpIfNonZero(addr + 1))
                     patched == BackPatch(pushed, addr, idx)
                 IN  [operations |-> patched.operations, jump_op_stack |-> popped,
                      result |-> patched.result]
      [] OTHER -> [operations |-> ops, jump_op_stack |-> stack, result |-> "ok"]

---------------------------------------------------------------------------
(* Initial states *)

InitWith(texts, fill) ==
    /\ program \in texts
    /\ reader \in Inputs
    /\ overflow_checks \in BOOLEAN
    /\ tape_fill = fill
    /\ pc = "parse"
    /\ i = 0
    /\ operations = <<>>
    /\ jump_op_stack = <<>>
    /\ cells = ArrayOf(0, 0)
    /\ ip = 0
    /\ dp = 0
    /\ writer = <<>>
    /\ istatus = "none"
    /\ jit_memory = ArrayOf(0, 0)
    /\ code = <<>>
    /\ wp = 1
    /\ mem = "null"
    /\ os_error = 0
    /\ diag = <<>>
    /\ page = <<>>
    /\ events = <<>>
    /\ regs = [x0 |-> 0, x1 |-> 0, x2 |-> 0, x3 |-> 0, x16 |-> 0]
    /\ npc = 0
    /\ stdout = <<>>
    /\ funcs = <<>>
    /\ outs = <<>>

\* main as written: the tape buffer is filled with 65
Init == InitWith(Programs, JitMemFill)

---------------------------------------------------------------------------
(* main: the parsing loop *)

\* one iteration of for (i, char) in program.chars().enumerate()
\* (a variant of ParseChar: the None arm of the pop does not return, the
\* loop goes on with the next character)
ParseCharGoesOn ==
    /\ pc = "parse"
    /\ i < Len(program)
    /\ LET r == ParseCharFn(operations, jump_op_stack, i, program[i + 1])
       IN  /\ operations' = r.operations
           /\ jump_op_stack' = r.jump_op_stack
           /\ pc' = IF r.result \in {"ok", "Err"} THEN "parse" ELSE "panic"
           /\ i' = IF r.result \in {"ok", "Err"} THEN i + 1 ELSE i
    /\ UNCHANGED <<callVars, inputVars, interpVars, jitVars>>

ParseChar ==
    /\ pc = "parse"
    /\ i < Len(program)
    /\ LET r == ParseCharFn(operations, jump_op_stack, i, program[i + 1])
       IN  /\ operations' = r.operations
           /\ jump_op_stack' = r.jump_op_stack
           /\ pc' = CASE r.result = "ok" -> "parse"
                      [] r.result = "Err" -> "err"
                      [] OTHER -> "panic"
           /\ i' = IF r.result = "ok" THEN i + 1 ELSE i
    /\ UNCHANGED <<callVars, inputVars, interpVars, jitVars>>

\* (a variant of ParseEnd: the interpreter's tape is as long as the buffer
\* main gives the generated code)
ParseEndLongTape ==
    /\ pc = "parse"
    /\ i = Len(program)
    /\ pc' = "interp"
    /\ cells' = ArrayOf(0, JitMemLen)
    /\ istatus' = "running"
    /\ UNCHANGED <<callVars, inputVars, parserVars, ip, dp, writer, reader, jitVars>>

\* the loop is over: the instruction list goes to the executors.
\* Interpreter::new zero-fills the cells.
ParseEnd ==
    /\ pc = "parse"
    /\ i = Len(program)
    /\ pc' = "interp"
    /\ cells' = ArrayOf(0, NumCells)
    /\ istatus' = "running"
    /\ UNCHANGED <<callVars, inputVars, parserVars, ip, dp, writer, reader, jitVars>>

---------------------------------------------------------------------------
(* Interpreter::run *)

\* self.cells[dp] += 1 : u8 addition; an overflow panics when the build
\* checks overflow and wraps otherwise.
\* The result is [ok, val]: ok = FALSE is the overflow panic.
AddOne(v, checks) ==
    IF v + 1 >= ByteMod
    THEN [ok |-> ~checks, val |-> (v + 1) % ByteMod]
    ELSE [ok |-> TRUE, val |-> v + 1]

\* (a variant of SubOne: the cell is incremented)
SubOneAdds(v, checks) == AddOne(v, checks)

\* self.cells[dp] -= 1
SubOne(v, checks) ==
    IF v - 1 < 0
    THEN [ok |-> ~checks, val |-> (v - 1) % ByteMod]
    ELSE [ok |-> TRUE, val |-> v - 1]

\* (a variant of ReadByte: end of input read as 255)
ReadByteEof(r) == IF r = <<>> THEN ByteMod - 1 ELSE Head(r)

\* reader.read(&mut read) with read = [0; 1]: the byte read, 0 when the
\* reader yields nothing
ReadByte(r) == IF r = <<>> THEN 0 ELSE Head(r)
ReadRest(r) == IF r = <<>> THEN <<>> ELSE Tail(r)

\* One iteration of the while loop on interpreter state
\* s = [cells, ip, dp, writer, reader, istatus].
Panic(s, why) == [s EXCEPT !.istatus = why]

\* (a variant of MoveLeft: no test of dp)
MoveLeftUnchecked(s) == [s EXCEPT !.dp = s.dp - 1, !.ip = s.ip + 1]

\* Op::Left: dp -= 1, or panic!("Tried to move left when dp was 0")
MoveLeft(s) ==
    IF s.dp > 0
    THEN [s EXCEPT !.dp = s.dp - 1, !.ip = s.ip + 1]
    ELSE Panic(s, "PointerUnderflow")

\* (a variant of JumpIf: the condition is not looked at, the run goes on
\* with the next instruction)
JumpIfFallsThrough(s, taken, addr) == [s EXCEPT !.ip = s.ip + 1]

\* Op::JumpIfZero / Op::JumpIfNonZero: ip = addr and continue when the test
\* of the current cell holds, else the ip += 1 at the end of the loop body
JumpIf(s, taken, addr) ==
    IF taken THEN [s EXCEPT !.ip = addr] ELSE [s EXCEPT !.ip = s.ip + 1]

ExecOp(op, s, checks) ==
    IF op = Left
    THEN MoveLeft(s)
    ELSE IF op = Right
    THEN [s EXCEPT !.dp = s.dp + 1, !.ip = s.ip + 1]
    ELSE IF s.dp >= s.cells.size
    THEN \* self.cells[dp] is out of bounds; Input has read its byte by then
         Panic(IF op = Input THEN [s EXCEPT !.reader = ReadRest(s.reader)] ELSE s,
               "IndexOutOfBounds")
    ELSE LET v == ArrayGet(s.cells, s.dp) IN
         CASE op = Inc ->
                 LET n == AddOne(v, checks) IN
                 IF ~n.ok THEN Panic(s, "ArithmeticOverflow")
                 ELSE [s EXCEPT !.cells = ArraySet(s.cells, s.dp, n.val), !.ip = s.ip + 1]
           [] op = Dec ->
                 LET n == SubOne(v, checks) IN
                 IF ~n.ok THEN Panic(s, "ArithmeticOverflow")
                 ELSE [s EXCEPT !.cells = ArraySet(s.cells, s.dp, n.val), !.ip = s.ip + 1]
           [] op = Output ->
                 [s EXCEPT !.writer = Append(s.writer, v), !.ip = s.ip + 1]
           [] op = Input ->
                 [s EXCEPT !.cells = ArraySet(s.cells, s.dp, ReadByte(s.reader)),
                           !.reader = ReadRest(s.reader), !.ip = s.ip + 1]
           [] IsJumpIfZero(op) -> JumpIf(s, v = 0, op[2])
           [] IsJumpIfNonZero(op) -> JumpIf(s, v # 0, op[2])

InterpState == [cells |-> cells, ip |-> ip, dp |-> dp, writer |-> writer,
                reader |-> reader, istatus |-> istatus]

InterpStep ==
    /\ pc = "interp"
    /\ istatus = "running"
    /\ ip < Len(operations)
    /\ operations[ip + 1] = Output => Len(writer) < MaxOut
    /\ LET s == ExecOp(operations[ip + 1], InterpState, overflow_checks)
       IN  /\ cells' = s.cells
           /\ ip' = s.ip
           /\ dp' = s.dp
           /\ writer' = s.writer
           /\ reader' = s.reader
           /\ istatus' = s.istatus
    /\ UNCHANGED <<callVars, inputVars, pc, parserVars, jitVars>>

\* The run is over (ip reached the end, or a panic); main goes on to the
\* compiled path: JitCompiler::new and the tape buffer.
InterpExit ==
    /\ pc = "interp"
    /\ istatus = "running" => ip >= Len(operations)
    /\ istatus' = IF istatus = "running" THEN "finished" ELSE istatus
    /\ jit_memory' = ArrayOf(tape_fill, JitMemLen)
    /\ pc' = "generate"
    /\ UNCHANGED <<callVars, inputVars, parserVars, cells, ip, dp, writer, reader,
                   code, wp, mem, os_error, diag, page, events, regs, npc,
                   stdout>>

---------------------------------------------------------------------------
(* JitCompiler::compile: code generation *)

\* the bytes pushed for one Op
EmitOp(op) ==
    CASE op = Inc ->
            \* LDRB W1, [X0] ; ADD W1, W1, #1 ; STRB W1, [X0]
            <<\h01, \h00, \h40, \h39, \h21, \h04, \h00, \h11, \h01, \h00, \h00, \h39>>
      [] op = Dec ->
            \* LDRB W1, [X0] ; SUB W1, W1, #1 ; STRB W1, [X0]
            <<\h01, \h00, \h40, \h39, \h21, \h04, \h00, \h51, \h01, \h00, \h00, \h39>>
      [] op = Left ->
            \* SUB X0, X0, #1
            <<\h00, \h04, \h00, \hD1>>
      [] op = Right ->
            \* ADD X0, X0, #1
            <<\h00, \h04, \h00, \h91>>
      [] op = Output ->
            <<\hE3, \h03, \h00, \hAA,      \* mov x3, x0
              \h20, \h00, \h80, \hD2,      \* movz x0, #1
              \hE1, \h03, \h03, \hAA,      \* mov x1, x3
              \h22, \h00, \h80, \hD2,      \* movz x2, #1
              \h90, \h00, \h80, \hD2,      \* movz x16, #4
              \h01, \h00, \h00, \hD4,      \* svc #0
              \hE0, \h03, \h03, \hAA>>     \* mov x0, x3
      [] OTHER -> <<>>                     \* Input, JumpIfZero, JumpIfNonZero

\* ret
RetBytes == <<\hC0, \h03, \h5F, \hD6>>

RECURSIVE EmitAll(_)
EmitAll(ops) ==
    IF ops = <<>> THEN <<>> ELSE EmitOp(Head(ops)) \o EmitAll(Tail(ops))

\* (a variant of Generate: no final ret)
GenerateNoRet(ops) == EmitAll(ops)

\* the for loop over self.ops, then the final ret
Generate(ops) == EmitAll(ops) \o RetBytes

\* (a variant of GenerateCode: the buffer of the previous compilation is
\* appended to, not started afresh)
GenerateCodeAccumulating ==
    /\ pc = "generate"
    /\ code' = code \o Generate(operations)
    /\ pc' = "protect_w"
    /\ UNCHANGED <<callVars, inputVars, parserVars, interpVars, jit_memory, wp, mem,
                   os_error, diag, page, events, regs, npc, stdout>>

GenerateCode ==
    /\ pc = "generate"
    /\ code' = Generate(operations)
    /\ pc' = "protect_w"
    /\ UNCHANGED <<callVars, inputVars, parserVars, interpVars, jit_memory, wp, mem,
                   os_error, diag, page, events, regs, npc, stdout>>

---------------------------------------------------------------------------
(* JitCompiler::compile: the executable page *)

\* (a variant of ProtectOff: the switch is left as it was)
ProtectOffSkipped ==
    /\ pc = "protect_w"
    /\ wp' = wp
    /\ events' = Append(events, "writable")
    /\ pc' = "mmap"
    /\ UNCHANGED <<callVars, inputVars, parserVars, interpVars, jit_memory, code, mem,
                   os_error, diag, page, regs, npc, stdout>>

\* pthread_jit_write_protect_np(0): the thread may write JIT pages
ProtectOff ==
    /\ pc = "protect_w"
    /\ wp' = 0
    /\ events' = Append(events, "writable")
    /\ pc' = "mmap"
    /\ UNCHANGED <<callVars, inputVars, parserVars, interpVars, jit_memory, code, mem,
                   os_error, diag, page, regs, npc, stdout>>

\* (a variant of Mmap: the result is not compared with MAP_FAILED)
MmapUnchecked ==
    /\ pc = "mmap"
    /\ \E e \in {0} \cup Errnos :
          /\ os_error' = e
          /\ mem' = IF e = 0 THEN "mapped" ELSE "MAP_FAILED"
          /\ page' = IF e = 0 THEN [k \in 1..Len(code) |-> 0] ELSE page
    /\ diag' = diag
    /\ pc' = "copy"
    /\ events' = Append(events, "mmap")
    /\ UNCHANGED <<callVars, inputVars, parserVars, interpVars, jit_memory, code, wp,
                   regs, npc, stdout>>

\* libc::mmap(null, code.len(), RWX, ANON | PRIVATE | JIT, -1, 0) and the
\* MAP_FAILED test: the kernel maps a zeroed region or refuses
\* (0: success, else the errno of the refusal).  On MAP_FAILED compile
\* prints the error code and panics.
Mmap ==
    /\ pc = "mmap"
    /\ \E e \in {0} \cup Errnos :
          /\ os_error' = e
          /\ mem' = IF e = 0 THEN "mapped" ELSE "MAP_FAILED"
          /\ page' = IF e = 0 THEN [k \in 1..Len(code) |-> 0] ELSE page
          /\ diag' = IF e = 0 THEN diag ELSE <<"Error code", e>>
          /\ pc' = IF e = 0 THEN "copy" ELSE "panic"
    /\ events' = Append(events, "mmap")
    /\ UNCHANGED <<callVars, inputVars, parserVars, interpVars, jit_memory, code, wp,
                   regs, npc, stdout>>

\* ptr::copy_nonoverlapping(code.as_ptr(), mem, code.len())
CopyCode ==
    /\ pc = "copy"
    /\ page' = code
    /\ events' = Append(events, "copy")
    /\ pc' = "protect_x"
    /\ UNCHANGED <<callVars, inputVars, parserVars, interpVars, jit_memory, code, wp,
                   mem, os_error, diag, regs, npc, stdout>>

\* (a variant of ProtectOn: the switch is left in the writable state)
ProtectOnLeftWritable ==
    /\ pc = "protect_x"
    /\ wp' = 0
    /\ events' = Append(events, "executable")
    /\ pc' = "invoke"
    /\ UNCHANGED <<callVars, inputVars, parserVars, interpVars, jit_memory, code, mem,
                   os_error, diag, page, regs, npc, stdout>>

\* pthread_jit_write_protect_np(1): the thread may execute JIT pages
ProtectOn ==
    /\ pc = "protect_x"
    /\ wp' = 1
    /\ events' = Append(events, "executable")
    /\ pc' = "invoke"
    /\ UNCHANGED <<callVars, inputVars, parserVars, interpVars, jit_memory, code, mem,
                   os_error, diag, page, regs, npc, stdout>>

---------------------------------------------------------------------------
(* The call func(mmr_addr) and the execution of the page's instructions.   *)
(* Addresses are integers; the tape buffer occupies JitMemBase ..          *)
(* JitMemBase + JitMemLen - 1.  W1 is kept as the signed reading of its    *)
(* bits: it holds 0..255 after LDRB, so -1 stands for 0xFFFFFFFF, whose    *)
(* low byte is 255.  The registers other than X0 are written by the        *)
(* generated code before it reads them.  main passes the buffer as a       *)
(* *const u8 taken from an immutable binding; the model takes the stores   *)
(* of the generated code to reach the buffer, as they do for a stack       *)
(* array.                                                                  *)

\* jit_memory.as_ptr(): where the buffer lies (any address does)
JitMemBase == 4096

InTape(m, a) == a >= JitMemBase /\ a < JitMemBase + m.tape.size

\* the 32-bit instruction word at byte offset n of page p, as its four bytes
Fetch(p, n) ==
    IF n + 4 <= Len(p) THEN <<p[n + 1], p[n + 2], p[n + 3], p[n + 4]>> ELSE <<>>

\* Execute instruction word w on machine state
\* m = [regs, npc, tape, out, status]; status "run", "ret" (returned to
\* main) or "undefined" (an access outside the buffer, a word the model
\* does not decode: the outcome is not defined by the program).
Undefined(m) == [m EXCEPT !.status = "undefined"]
Advance(m) == [m EXCEPT !.npc = m.npc + 4]

NativeExec(w, m) ==
    CASE w = <<\h01, \h00, \h40, \h39>> ->      \* LDRB W1, [X0]
            IF InTape(m, m.regs.x0)
            THEN Advance([m EXCEPT !.regs.x1 = ArrayGet(m.tape, m.regs.x0 - JitMemBase)])
            ELSE Undefined(m)
      [] w = <<\h21, \h04, \h00, \h11>> ->      \* ADD W1, W1, #1
            Advance([m EXCEPT !.regs.x1 = m.regs.x1 + 1])
      [] w = <<\h21, \h04, \h00, \h51>> ->      \* SUB W1, W1, #1
            Advance([m EXCEPT !.regs.x1 = m.regs.x1 - 1])
      [] w = <<\h01, \h00, \h00, \h39>> ->      \* STRB W1, [X0]
            IF InTape(m, m.regs.x0)
            THEN Advance([m EXCEPT !.tape = ArraySet(m.tape, m.regs.x0 - JitMemBase,
                                                     m.regs.x1 % ByteMod)])
            ELSE Undefined(m)
      [] w = <<\h00, \h04, \h00, \hD1>> ->      \* SUB X0, X0, #1
            Advance([m EXCEPT !.regs.x0 = m.regs.x0 - 1])
      [] w = <<\h00, \h04, \h00, \h91>> ->      \* ADD X0, X0, #1
            Advance([m EXCEPT !.regs.x0 = m.regs.x0 + 1])
      [] w = <<\hE3, \h03, \h00, \hAA>> ->      \* MOV X3, X0
            Advance([m EXCEPT !.regs.x3 = m.regs.x0])
      [] w = <<\h20, \h00, \h80, \hD2>> ->      \* MOVZ X0, #1
            Advance([m EXCEPT !.regs.x0 = 1])
      [] w = <<\hE1, \h03, \h03, \hAA>> ->      \* MOV X1, X3
            Advance([m EXCEPT !.regs.x1 = m.regs.x3])
      [] w = <<\h22, \h00, \h80, \hD2>> ->      \* MOVZ X2, #1
            Advance([m EXCEPT !.regs.x2 = 1])
      [] w = <<\h90, \h00, \h80, \hD2>> ->      \* MOVZ X16, #4
            Advance([m EXCEPT !.regs.x16 = 4])
      [] w = <<\h01, \h00, \h00, \hD4>> ->      \* SVC #0
            \* write(fd = X0, buf = X1, len = X2); X0 receives the count
            IF m.regs.x16 = 4 /\ m.regs.x0 = 1 /\ m.regs.x2 = 1 /\ InTape(m, m.regs.x1)
            THEN Advance([m EXCEPT !.out = Append(m.out, ArrayGet(m.tape, m.regs.x1 - JitMemBase)),
                                   !.regs.x0 = 1])
            ELSE Undefined(m)
      [] w = <<\hE0, \h03, \h03, \hAA>> ->      \* MOV X0, X3
            Advance([m EXCEPT !.regs.x0 = m.regs.x3])
      [] w = <<\hC0, \h03, \h5F, \hD6>> ->      \* RET
            [m EXCEPT !.status = "ret"]
      [] OTHER -> Undefined(m)

\* compile returns func (the page's address as a function pointer) and main
\* calls func(mmr_addr): X0 = the buffer's address, control at the page start
Invoke ==
    /\ pc = "invoke"
    /\ regs' = [regs EXCEPT !.x0 = JitMemBase]
    /\ npc' = 0
    /\ events' = Append(events, "invoke")
    /\ pc' = "native"
    /\ UNCHANGED <<callVars, inputVars, parserVars, interpVars, jit_memory, code, wp,
                   mem, os_error, diag, page, stdout>>

\* the page control is in: the page of main's one compilation, or the page
\* of the function being called when compile was called several times
Callee == IF funcs = <<>> THEN page ELSE funcs[Len(outs) + 1]

\* One instruction of the page.  Fetching from a JIT page while the thread's
\* switch is in the writable state faults.
NativeStep ==
    /\ pc = "native"
    /\ LET m == IF wp = 1
                THEN NativeExec(Fetch(Callee, npc),
                                [regs |-> regs, npc |-> npc, tape |-> jit_memory,
                                 out |-> stdout, status |-> "run"])
                ELSE [regs |-> regs, npc |-> npc, tape |-> jit_memory,
                      out |-> stdout, status |-> "fault"]
       IN  /\ regs' = m.regs
           /\ npc' = m.npc
           /\ jit_memory' = m.tape
           /\ stdout' = m.out
           /\ pc' = CASE m.status = "run" -> "native"
                      [] m.status = "ret" -> "done"      \* main returns Ok(())
                      [] m.status = "fault" -> "fault"
                      [] OTHER -> "undefined"
    /\ UNCHANGED <<callVars, inputVars, parserVars, interpVars, code, wp, mem, os_error,
                   diag, page, events>>

---------------------------------------------------------------------------

Next ==
    \/ ParseChar
    \/ ParseEnd
    \/ InterpStep
    \/ InterpExit
    \/ GenerateCode
    \/ ProtectOff
    \/ Mmap
    \/ CopyCode
    \/ ProtectOn
    \/ Invoke
    \/ NativeStep

Spec == Init /\ [][Next]_vars

\* The parser alone, on every text, with and without open brackets.
InitParse ==
    /\ InitWith(Texts, JitMemFill)
    /\ reader = <<>>
    /\ overflow_checks = TRUE

NextParse ==
    \/ ParseChar
    \/ ParseEnd

SpecParse == InitParse /\ [][NextParse]_vars

---------------------------------------------------------------------------
(* compile called several times on the same JitCompiler, then each         *)
(* returned function called on a tape buffer set up as main sets it up.    *)

\* how many times compile is called
Compilations == 2

\* compile returns func; the next call of compile starts, or the calls of
\* the functions do
ReturnFunc ==
    /\ pc = "invoke"
    /\ funcs' = Append(funcs, page)
    /\ pc' = IF Len(funcs) + 1 < Compilations THEN "generate" ELSE "call"
    /\ UNCHANGED <<inputVars, parserVars, interpVars, jitVars, outs>>

\* func(mmr_addr) for the next function, on a fresh buffer
CallFunc ==
    /\ pc = "call"
    /\ jit_memory' = ArrayOf(tape_fill, JitMemLen)
    /\ stdout' = <<>>
    /\ regs' = [regs EXCEPT !.x0 = JitMemBase]
    /\ npc' = 0
    /\ events' = Append(events, "invoke")
    /\ pc' = "native"
    /\ UNCHANGED <<callVars, inputVars, parserVars, interpVars, code, wp, mem,
                   os_error, diag, page>>

\* the called function returned: what it wrote and left is kept
FuncReturned ==
    /\ pc = "done"
    /\ Len(outs) < Len(funcs)
    /\ outs' = Append(outs, [out |-> stdout, tape |-> jit_memory])
    /\ pc' = IF Len(outs) + 1 < Len(funcs) THEN "call" ELSE "end"
    /\ UNCHANGED <<inputVars, parserVars, interpVars, jitVars, funcs>>

InitTwice ==
    /\ InitWith(Programs, JitMemFill)
    /\ reader = <<>>
    /\ overflow_checks = FALSE

NextTwice ==
    \/ ParseChar
    \/ ParseEnd
    \/ InterpStep
    \/ InterpExit
    \/ GenerateCode
    \/ ProtectOff
    \/ Mmap
    \/ CopyCode
    \/ ProtectOn
    \/ ReturnFunc
    \/ CallFunc
    \/ NativeStep
    \/ FuncReturned

SpecTwice == InitTwice /\ [][NextTwice]_vars

---------------------------------------------------------------------------
(* The interpreter alone, on programs with loops. *)

\* n times '+'
Plus(n) == [k \in 1..n |-> "+"]

\* n '+' followed by "[-]."
ZeroLoop(n) == Plus(n) \o <<"[", "-", "]", ".">>

ZeroLoops == {ZeroLoop(n) : n \in 0..(ByteMod - 1)}

\* "+>++[-<+>]<." adds the second cell to the first one and writes it
MoveLoop == <<"+", ">", "+", "+", "[", "-", "<", "+", ">", "]", "<", ".">>

LoopPrograms == ZeroLoops \cup {MoveLoop}

InitLoop ==
    /\ InitWith(LoopPrograms, JitMemFill)
    /\ reader = <<>>

NextInterp ==
    \/ ParseChar
    \/ ParseEnd
    \/ InterpStep
    \/ InterpExit

SpecLoop == InitLoop /\ [][NextInterp]_vars

\* the loop of Interpreter::run goes on while ip < operations.len(), and
\* main goes on after it
SpecLoopFair == SpecLoop /\ WF_vars(NextInterp)

---------------------------------------------------------------------------
(* The interpreter alone, on programs that move dp to the end of the tape. *)

\* n times '>'
Rights(n) == [k \in 1..n |-> ">"]

\* what follows the '>'s that lead dp past the last cell
OverrunTails ==
    {<<"+">>, <<"-">>, <<".">>, <<",">>, <<"[", "]">>, <<">", "+">>, <<"<", "+", ".">>}

\* dp = cells.len() on the last instruction(s); the last program comes to
\* its ']' with dp = cells.len(), from a loop entered on the last cell
OverrunPrograms ==
    {Rights(NumCells) \o t : t \in OverrunTails}
        \cup {Rights(NumCells - 1) \o <<"+", "[", ">", "]">>}

InitOverrun ==
    /\ InitWith(OverrunPrograms, JitMemFill)
    /\ reader = <<7>>

SpecOverrun == InitOverrun /\ [][NextInterp]_vars

\* The compiled path on a zero-initialized tape, beside the interpreter.
InitZeroTape == InitWith(Programs, 0)

SpecZeroTape == InitZeroTape /\ [][Next]_vars

---------------------------------------------------------------------------
(* Helpers of the properties *)

\* text t without the characters that are no instruction
RECURSIVE Strip(_)
Strip(t) ==
    IF t = <<>> THEN <<>>
    ELSE IF Head(t) \in InstrChars THEN <<Head(t)>> \o Strip(Tail(t))
    ELSE Strip(Tail(t))

\* the parsing loop run on the whole of text t from its character n on
RECURSIVE ParseFrom(_, _, _, _)
ParseFrom(t, n, ops, stack) ==
    IF n >= Len(t)
    THEN [operations |-> ops, jump_op_stack |-> stack, result |-> "ok"]
    ELSE LET r == ParseCharFn(ops, stack, n, t[n + 1]) IN
         IF r.result = "ok" THEN ParseFrom(t, n + 1, r.operations, r.jump_op_stack)
         ELSE r

ParseText(t) == ParseFrom(t, 0, <<>>, <<>>)

ParseOver == pc # "parse"
ParseSucceeded == pc \notin {"parse", "err", "panic"} \/ (pc = "panic" /\ mem = "MAP_FAILED")

---------------------------------------------------------------------------
(* Properties *)

\* C1: the generated code, run on a zero-initialized tape, writes exactly
\* the bytes the interpreter writes for the same instruction sequence and
\* input, also for programs with '[', ']' and ','.  Stated of the runs
\* that both come to their end: the interpreter finished, the compiled
\* function returned.
C1_SameOutput ==
    (tape_fill = 0 /\ istatus = "finished" /\ pc = "done") => stdout = writer

\* C2: for a text with balanced brackets, every JumpIfZero at list index i
\* (0-based) with target t has at list index t-1 a JumpIfNonZero whose
\* target is i+1.
C2_TargetsCorrespond ==
    (ParseSucceeded /\ Balanced(program)) =>
        \A k \in 1..Len(operations) :
            IsJumpIfZero(operations[k]) =>
                LET t == operations[k][2] IN
                /\ t >= 1
                /\ t <= Len(operations)
                /\ operations[t] = JumpIfNonZero(k)

\* C3: for a text whose brackets are not balanced, parsing ends with the
\* unbalanced-brackets error, both for a ']' with no '[' open and for a
\* '[' left open at the end of input.
C3_UnbalancedRejected ==
    (ParseOver /\ ~Balanced(program)) => pc = "err"

\* C4: characters that are no instruction are ignored: parsing never panics
\* on their account and gives the result (success or error, and on success
\* the same instruction list) that parsing the text without them gives.
C4_OtherCharsIgnored ==
    ParseOver =>
        LET r == ParseText(Strip(program)) IN
        /\ pc # "panic" \/ mem = "MAP_FAILED"
        /\ (pc = "err") <=> (r.result = "Err")
        /\ ParseSucceeded => (r.result = "ok" /\ operations = r.operations)

\* the executable-memory steps of one run, in the order of compile and main
PageSteps == <<"writable", "mmap", "copy", "executable", "invoke">>

\* C5: the executable-memory steps happen in the order switch-to-writable,
\* map, copy (once), switch-to-executable, invoke; the page is not written
\* after the switch to executable and is never invoked (nor executing)
\* while the switch is in the writable state.
C5_PageProtocolOrder ==
    /\ Len(events) <= Len(PageSteps)
    /\ events = SubSeq(PageSteps, 1, Len(events))
    /\ wp = (IF Len(events) \in 1..3 THEN 0 ELSE 1)
    /\ Len(events) >= 3 => (mem = "mapped" /\ page = code)
    /\ Len(events) < 3 => \A k \in 1..Len(page) : page[k] = 0
    /\ pc \in {"native", "done", "undefined", "fault"} =>
          (events = PageSteps /\ wp = 1)
    /\ pc # "fault"

C5_Witness == pc = "done" /\ events = PageSteps /\ stdout # <<>>

\* C6: when mmap returns MAP_FAILED, compile ends in the panic that follows
\* the printing of the platform error code: nothing is copied, no function
\* is returned and no generated code is invoked.
C6_MapFailedIsFatal ==
    mem = "MAP_FAILED" =>
        /\ pc = "panic"
        /\ os_error \in Errnos
        /\ diag = <<"Error code", os_error>>
        /\ events = <<"writable", "mmap">>
        /\ page = <<>>
        /\ npc = 0
        /\ stdout = <<>>

C6_Witness == mem = "MAP_FAILED" /\ pc = "panic" /\ diag = <<"Error code", 12>>

\* the interpreter is about to execute op
AtOp(op) ==
    /\ pc = "interp"
    /\ istatus = "running"
    /\ ip < Len(operations)
    /\ operations[ip + 1] = op

\* C7: in the interpreter '+' and '-' wrap modulo 256 on the current cell
\* ('+' on 255 gives 0, '-' on 0 gives 255), the run goes on with the next
\* instruction, and every cell stays in 0..255.
C7_WrappingArithmetic ==
    /\ [](ArrayCells(cells) \subseteq 0..(ByteMod - 1))
    /\ [][(AtOp(Inc) /\ dp < NumCells) =>
             /\ istatus' = "running"
             /\ ip' = ip + 1
             /\ cells' = ArraySet(cells, dp, (ArrayGet(cells, dp) + 1) % ByteMod)]_vars
    /\ [][(AtOp(Dec) /\ dp < NumCells) =>
             /\ istatus' = "running"
             /\ ip' = ip + 1
             /\ cells' = ArraySet(cells, dp, (ArrayGet(cells, dp) - 1) % ByteMod)]_vars

C9_InputExhaustedFails ==
    [][(AtOp(Input) /\ dp < NumCells) =>
          IF reader # <<>>
          THEN /\ cells' = ArraySet(cells, dp, Head(reader))
               /\ reader' = Tail(reader)
               /\ ip' = ip + 1
               /\ istatus' = "running"
          ELSE /\ istatus' = "InputExhausted"
               /\ UNCHANGED <<cells, ip>>]_vars

\* C9 as amended: ',' takes one byte from the source when it has one and
\* stores it in the current cell; when the source yields nothing it stores
\* 0 in the current cell; either way the run goes on with the next
\* instruction and nothing else changes.
C9_InputZeroFill ==
    [][(AtOp(Input) /\ dp < NumCells) =>
          /\ IF reader # <<>>
             THEN /\ cells' = ArraySet(cells, dp, Head(reader))
                  /\ reader' = Tail(reader)
             ELSE /\ cells' = ArraySet(cells, dp, 0)
                  /\ reader' = <<>>
          /\ ip' = ip + 1
          /\ istatus' = "running"
          /\ UNCHANGED <<dp, writer>>]_vars

C9_Witness ==
    /\ istatus = "finished"
    /\ operations = <<Inc, Input, Output>>
    /\ reader = <<>>
    /\ writer = <<0>>

\* text t is n '+' followed by '.', for some n in 0..255
IsPlusDot(t) ==
    /\ Len(t) >= 1
    /\ Len(t) - 1 < ByteMod
    /\ t[Len(t)] = "."
    /\ \A k \in 1..(Len(t) - 1) : t[k] = "+"

\* C10: the program of n '+' followed by '.' (n in 0..255) outputs exactly
\* one byte, of value n, through the interpreter and through main's
\* compile-and-invoke path with the tape buffer main sets up.
C10_IncrementsThenOutput ==
    IsPlusDot(program) =>
        /\ istatus = "finished" => writer = <<Len(program) - 1>>
        /\ pc = "done" => stdout = <<Len(program) - 1>>

\* how many of the executable-memory steps taken were step e
CountOf(e) == Cardinality({k \in 1..Len(events) : events[k] = e})

\* C11: compiling the same instruction sequence again yields separately
\* mapped functions with byte-identical code; once the last compilation is
\* over the switch is back in the executable state, so that every one of
\* them can be invoked, and their calls on equal tapes write the same
\* bytes (and leave equal tapes).
C11_CompileAgain ==
    /\ \A j \in 1..Len(funcs) : funcs[j] = Generate(operations)
    /\ \A j \in 1..Len(funcs) : \A k \in 1..Len(funcs) : funcs[j] = funcs[k]
    /\ Len(funcs) >= 1 => CountOf("mmap") >= Len(funcs)
    /\ pc \in {"call", "native", "done", "end", "undefined"} =>
          (Len(funcs) = Compilations /\ CountOf("mmap") = Compilations /\ wp = 1)
    /\ pc # "fault"
    /\ \A j \in 1..Len(outs) : \A k \in 1..Len(outs) : outs[j] = outs[k]

C11_Witness ==
    /\ pc = "end"
    /\ Len(funcs) >= 2
    /\ Len(outs) = Len(funcs)
    /\ outs[1].out # <<>>
    /\ outs[2].out = outs[1].out

\* C12: a text with no instruction character (the empty text included)
\* parses successfully to the empty instruction list; the interpreter run
\* on it ends without executing anything, the generated buffer is just the
\* return instruction and the call of it returns at its first word; no
\* byte is written and no tape cell changes on either path.  The only
\* other end of such a run is the panic of a failed mapping.
C12_EmptyProgram ==
    Strip(program) = <<>> =>
        /\ operations = <<>>
        /\ jump_op_stack = <<>>
        /\ pc # "err"
        /\ pc = "panic" => mem = "MAP_FAILED"
        /\ pc \notin {"undefined", "fault"}
        /\ istatus \in {"none", "running", "finished"}
        /\ ip = 0
        /\ dp = 0
        /\ pc = "interp" /\ istatus = "running" => ENABLED InterpExit
        /\ pc \notin {"parse", "interp"} => istatus = "finished"
        /\ writer = <<>>
        /\ cells.diff = <<>>
        /\ pc \notin {"parse", "interp", "generate"} => code = RetBytes
        /\ pc = "native" => (npc = 0 /\ Fetch(page, npc) = RetBytes)
        /\ stdout = <<>>
        /\ jit_memory.diff = <<>>
        /\ pc \notin {"done", "panic"} => ENABLED Next

C12_Witness ==
    /\ program = <<"a", "a">>
    /\ pc = "done"
    /\ operations = <<>>
    /\ istatus = "finished"
    /\ code = RetBytes
    /\ stdout = <<>>

\* what main returns, once it has returned: Err("Unbalanced jumps") from
\* the parsing loop, Ok(()) after func(mmr_addr)
MainResult ==
    CASE pc = "err" -> <<"Err", "Unbalanced jumps">>
      [] pc = "done" -> <<"Ok">>
      [] OTHER -> <<>>

\* the status of the process for a main returning Result: 0 for Ok, 1 and
\* the error printed for Err; -1 stands for no status from a return of main
ExitStatus ==
    CASE MainResult = <<"Ok">> -> 0
      [] MainResult # <<>> /\ MainResult[1] = "Err" -> 1
      [] OTHER -> -1

\* C13: a ']' met with the address stack empty ends the process with the
\* error outcome at that character (main returns Err("Unbalanced jumps"),
\* status 1): nothing after it is parsed and no switch of the write
\* protection, mapping, copy or call of generated code takes place; a run
\* that parses and executes to completion ends with status 0.
C13_UnmatchedCloseIsError ==
    /\ [][(pc = "parse" /\ i < Len(program) /\ program[i + 1] = "]"
              /\ jump_op_stack = <<>>) =>
             /\ pc' = "err"
             /\ UNCHANGED <<i, operations, jump_op_stack, interpVars, jitVars,
                            callVars, inputVars>>]_vars
    /\ [](pc = "err" =>
             /\ ExitStatus = 1
             /\ MainResult = <<"Err", "Unbalanced jumps">>
             /\ i < Len(program)
             /\ program[i + 1] = "]"
             /\ jump_op_stack = <<>>
             /\ Len(operations) = Len(Strip(SubSeq(program, 1, i)))
             /\ events = <<>>
             /\ wp = 1
             /\ mem = "null"
             /\ page = <<>>
             /\ code = <<>>
             /\ stdout = <<>>
             /\ writer = <<>>
             /\ istatus = "none"
             /\ ~ENABLED Next)
    /\ [](pc = "done" =>
             /\ ExitStatus = 0
             /\ i = Len(program)
             /\ events = PageSteps)

C13_Witness ==
    /\ pc = "err"
    /\ program = <<"+", "]", ".">>
    /\ i = 1
    /\ operations = <<Inc>>
    /\ events = <<>>

\* the interpreter is about to execute the instruction at ip, with the
\* current cell on the tape
AtCell ==
    /\ pc = "interp"
    /\ istatus = "running"
    /\ ip < Len(operations)
    /\ dp < NumCells

\* C14: in the interpreter JumpIfZero(t) sets ip to t when the current
\* cell is 0 and to ip + 1 otherwise, JumpIfNonZero(t) sets ip to t when
\* the current cell is not 0 and to ip + 1 otherwise; both leave dp, every
\* cell, the instruction list and the output (and the input) unchanged,
\* and the run goes on.
C14_JumpSemantics ==
    /\ [][(AtCell /\ IsJumpIfZero(operations[ip + 1])) =>
             /\ ip' = IF ArrayGet(cells, dp) = 0
                      THEN operations[ip + 1][2] ELSE ip + 1
             /\ istatus' = "running"
             /\ UNCHANGED <<dp, cells, operations, writer, reader>>]_vars
    /\ [][(AtCell /\ IsJumpIfNonZero(operations[ip + 1])) =>
             /\ ip' = IF ArrayGet(cells, dp) # 0
                      THEN operations[ip + 1][2] ELSE ip + 1
             /\ istatus' = "running"
             /\ UNCHANGED <<dp, cells, operations, writer, reader>>]_vars

\* after the loop of "+>++[-<+>]<.": both jumps were met with a zero and
\* with a non-zero cell away from cell 0
C14_Witness ==
    /\ program = MoveLoop
    /\ istatus = "finished"
    /\ writer = <<3>>
    /\ dp = 0
    /\ ip = Len(operations)

\* C15: for every n in 0..255 the interpreter run on n '+' followed by
\* "[-]." terminates, ip reaching the length of the instruction list with
\* no panic on the way, and writes exactly one byte, of value 0.
C15_ZeroLoopTerminates ==
    (program \in ZeroLoops) =>
        <>(/\ istatus = "finished"
           /\ ip = Len(operations)
           /\ writer = <<0>>)

C15_Witness ==
    /\ program = ZeroLoop(ByteMod - 1)
    /\ istatus = "finished"
    /\ ip = Len(operations)
    /\ Len(operations) = ByteMod + 3
    /\ writer = <<0>>

\* the byte offset in the generated buffer at which the code for the
\* instruction of index k (from 0) starts; for k the length of the list,
\* the end of the code before the final ret
CodeOffset(k) == Len(EmitAll(SubSeq(operations, 1, k)))

\* the word is a conditional branch: CBZ / CBNZ (W or X register) or B.cond
IsCondBranch(w) == w # <<>> /\ w[4] \in {\h34, \h35, \hB4, \hB5, \h54}

\* the signed 19-bit word offset in bits 23..5 of a conditional branch
Imm19(w) ==
    LET u == (w[1] + 256 * w[2] + 65536 * w[3]) \div 32
    IN  IF u >= 262144 THEN u - 524288 ELSE u

\* C16 as claimed: for every JumpIfZero and JumpIfNonZero of the
\* instruction list the generated buffer holds, at the place of that
\* instruction, a compare-and-conditional-branch whose destination is the
\* byte offset at which the code for the instruction of the target index
\* starts (the end of the code before the final ret when the target is the
\* length of the list).  The generator emits nothing for either.
C16_JumpsCompiled ==
    code # <<>> =>
        \A k \in 1..Len(operations) :
            (IsJumpIfZero(operations[k]) \/ IsJumpIfNonZero(operations[k])) =>
                /\ operations[k][2] <= Len(operations)
                /\ \E b \in CodeOffset(k - 1)..(CodeOffset(k) - 4) :
                       /\ b % 4 = 0
                       /\ IsCondBranch(Fetch(code, b))
                       /\ b + 4 * Imm19(Fetch(code, b)) = CodeOffset(operations[k][2])

\* the index in the instruction list (from 0) of the instruction pushed
\* for the character of index c (from 0) of the text
OpIndexOf(c) == Len(Strip(SubSeq(program, 1, c)))

\* C17: while parsing, the instruction list only grows, except for the
\* back-patching: a step changes an instruction already in the list only
\* when it processes a ']', and then only the JumpIfZero pushed for the
\* '[' popped from the address stack, whose target goes from the
\* placeholder 0 to a non-zero value -- so it is written once; no other
\* instruction already in the list is ever modified.
C17_AppendOnlyButBackPatch ==
    [][pc = "parse" =>
          /\ Len(operations') >= Len(operations)
          /\ \A k \in 1..Len(operations) :
                operations'[k] # operations[k] =>
                    /\ program[i + 1] = "]"
                    /\ jump_op_stack # <<>>
                    /\ k = OpIndexOf(jump_op_stack[Len(jump_op_stack)]) + 1
                    /\ jump_op_stack' = SubSeq(jump_op_stack, 1, Len(jump_op_stack) - 1)
                    /\ operations[k] = JumpIfZero(0)
                    /\ IsJumpIfZero(operations'[k])
                    /\ operations'[k][2] # 0]_vars

C17_Witness ==
    /\ program = <<"[", "[", "]">>
    /\ i = 3
    /\ jump_op_stack = <<0>>
    /\ operations = <<JumpIfZero(0), JumpIfZero(3), JumpIfNonZero(2)>>

\* C18: when the mapping request fails, compile ends with the thread's
\* switch in the writable state: it was set to writable before the
\* request, and on the failure path nothing sets it back to executable
\* (no step follows the panic).
C18_FailedMapLeavesWritable ==
    mem = "MAP_FAILED" =>
        /\ wp = 0
        /\ Len(events) = 2
        /\ events[1] = "writable"
        /\ events[2] = "mmap"
        /\ \A k \in 1..Len(events) : events[k] # "executable"
        /\ pc = "panic"
        /\ ~ENABLED Next

C18_Witness ==
    /\ mem = "MAP_FAILED"
    /\ os_error = 22
    /\ wp = 0
    /\ events = <<"writable", "mmap">>
    /\ program = <<"+", ".">>

\* the interpreter is about to execute an instruction that uses the
\* current cell
AtCellOp ==
    /\ pc = "interp"
    /\ istatus = "running"
    /\ ip < Len(operations)
    /\ operations[ip + 1] \notin {Left, Right}

====
